---- MODULE Spec2Model ----
(***************************************************************************)
(* Model of river-layout-toolkit (src/src/lib.rs): the dispatch loop of    *)
(* `run`, the output registry kept in State.outputs, and the handlers of   *)
(* wl_registry, wl_output and river_layout_v3 events.                      *)
(*                                                                         *)
(* The compositor and the caller's Layout implementation are the           *)
(* environment: the compositor chooses the events, the Layout chooses the  *)
(* results of generate_layout and user_cmd.                                *)
(***************************************************************************)
EXTENDS Integers, Sequences, FiniteSets, TLC

(***************************************************************************)
(* Bounds of the model.                                                    *)
(***************************************************************************)
\* object ids the connection allocates are 1..MaxObjects
MaxObjects == 4
\* a layout demand asks for 0..MaxViews views
MaxViews == 2
\* one recv_events call reads at most MaxBatch events
MaxBatch == 2

(***************************************************************************)
(* Input domains.                                                          *)
(***************************************************************************)
\* registry names the compositor hands out
RegNames == {1, 2}
ObjectIds == 1..MaxObjects
\* versions a compositor advertises for wl_output
AdvertisedVersions == {2, 5}
\* C strings that are not valid UTF-8: CString::into_string fails on them
InvalidUtf8 == {"\\xff"}
\* Rust strings with an interior NUL byte: CString::new fails on them
WithNul == {"a\\0b"}
OutputNameStrings == {"eDP-1", "HDMI-A-1"} \cup InvalidUtf8
CommandStrings == {"toggle_layout"} \cup InvalidUtf8
LayoutNames == {"[]="} \cup WithNul
TagValues == {1, 2}
\* what a layout demand carries beside its view count
DemandInputs ==
    {[usable_width |-> 800, usable_height |-> 600, tags |-> 1, serial |-> 11],
     [usable_width |-> 640, usable_height |-> 480, tags |-> 2, serial |-> 12]}
\* the rectangles a Layout hands back; all distinct, so order is observable
Rect(i) == [x |-> i, y |-> 0 - i, width |-> 10 * i, height |-> 20 * i]
\* the error value of the caller's Layout::Error type
LayoutErrors == {"E"}

(***************************************************************************)
(* Option<T>                                                               *)
(***************************************************************************)
None == [some |-> FALSE]
Some(v) == [some |-> TRUE, val |-> v]
is_some(o) == o.some

\* Layout::NAMESPACE of the caller's implementation
NAMESPACE == "test-layout"

\* the binding of river_layout_manager_v3 made once by run
layout_manager == "river_layout_manager_v3"


(***************************************************************************)
(* State.                                                                  *)
(*   outputs, last_user_cmd_tags   fields of State                         *)
(*   conn_out     requests queued on the connection since the last flush   *)
(*   next_id      next object id the connection allocates                  *)
(*   pc, pending  position of run's loop; events of the current batch that *)
(*                dispatch_events has not dispatched yet                   *)
(*   result       Running, or how run ended                                *)
(*   globals      the compositor's live globals, by registry name          *)
(*   last_event   the event dispatched last in the current batch, if any   *)
(*   calls        the calls its handler made to the Layout                 *)
(*   queued       the requests its handler queued on the connection        *)
(*   announced    the last tags announcement the compositor sent           *)
(*   announced_on the layout object it was sent to                         *)
(***************************************************************************)
VARIABLES outputs, last_user_cmd_tags, conn_out, next_id, pc, pending, result,
          globals, last_event, calls, queued, announced, announced_on

vars == <<outputs, last_user_cmd_tags, conn_out, next_id, pc, pending, result,
          globals, last_event, calls, queued, announced, announced_on>>

NoGlobal == [interface |-> "none", version |-> 0]
OutputGlobals == [interface : {"wl_output"}, version : AdvertisedVersions]
OtherGlobals == [interface : {"wl_seat"}, version : {1}]

Running == [state |-> "Running"]
Returned(e) == [state |-> "Err", err |-> e]
Panicked(m) == [state |-> "Panic", msg |-> m]

\* Error<E>
NamespaceInUse(ns) == [variant |-> "NamespaceInUse", detail |-> ns]
InvalidGeneratedLayout == [variant |-> "InvalidGeneratedLayout", detail |-> ""]
LayoutError(e) == [variant |-> "LayoutError", detail |-> e]

\* Result<T, E>
Ok(v) == [ok |-> TRUE, val |-> v]
Err(e) == [ok |-> FALSE, err |-> e]

\* CString::into_string: fails when the bytes are not UTF-8
into_string(c) == IF c \in InvalidUtf8 THEN Err("FromUtf8Error") ELSE Ok(c)

\* CString::new: fails when the string has an interior NUL byte
CString_new(s) == IF s \in WithNul THEN Err("NulError") ELSE Ok(s)

\* Global::bind(conn, 1..=4): the bound version is the advertised one, capped
bound_version(v) == IF v < 4 THEN v ELSE 4

\* Output::bind
Output_bind(id, reg_name, version) ==
    [wl_output |-> id,
     version |-> bound_version(version),
     reg_name |-> reg_name,
     name |-> None,
     river_layout |-> None]

\* the wl_registry.bind request Global::bind queues
BindRequest(id, reg_name, version) ==
    [req |-> "bind", obj |-> id, reg_name |-> reg_name,
     version |-> bound_version(version)]

\* run: globals.iter().filter(|g| g.is::<WlOutput>()).map(Output::bind).collect()
RECURSIVE InitialOutputs(_, _, _)
InitialOutputs(g, n, id) ==
    IF n \notin RegNames THEN <<>>
    ELSE IF g[n].interface = "wl_output"
         THEN <<Output_bind(id, n, g[n].version)>> \o InitialOutputs(g, n + 1, id + 1)
         ELSE InitialOutputs(g, n + 1, id)

InitialBinds(outs) ==
    [i \in 1..Len(outs) |->
        [req |-> "bind", obj |-> outs[i].wl_output, reg_name |-> outs[i].reg_name,
         version |-> outs[i].version]]

\* the state run builds before it enters its loop
Init ==
    \E g \in [RegNames -> OutputGlobals \cup OtherGlobals \cup {NoGlobal}] :
        /\ globals = g
        /\ outputs = InitialOutputs(g, 1, 1)
        /\ last_user_cmd_tags = None
        /\ conn_out = InitialBinds(InitialOutputs(g, 1, 1))
        /\ next_id = Len(InitialOutputs(g, 1, 1)) + 1
        /\ pc = "flush"
        /\ pending = 0
        /\ result = Running
        /\ last_event = None
        /\ calls = <<>>
        /\ queued = <<>>
        /\ announced = None
        /\ announced_on = None

(***************************************************************************)
(* run's loop: flush, recv_events, dispatch_events.                        *)
(***************************************************************************)
\* run is over: state and conn, its locals, are dropped, and what the
\* connection still held is never written
Dropped ==
    /\ outputs' = <<>>
    /\ last_user_cmd_tags' = None
    /\ conn_out' = <<>>
    /\ UNCHANGED next_id

\* Flush gone wrong: run returns Ok(()) once the queue is written
Flush_returns ==
    /\ result = Running /\ pc = "flush"
    /\ result' = [state |-> "Ok"]
    /\ Dropped
    /\ last_event' = None
    /\ calls' = <<>>
    /\ queued' = <<>>
    /\ UNCHANGED <<pc, pending, globals, announced, announced_on>>

\* conn.flush(IoMode::Blocking).unwrap(), the write succeeding
Flush ==
    /\ result = Running /\ pc = "flush"
    /\ conn_out' = <<>>
    /\ last_event' = None
    /\ calls' = <<>>
    /\ queued' = <<>>
    /\ pc' = "recv"
    /\ UNCHANGED <<outputs, last_user_cmd_tags, next_id, pending, result, globals,
                   announced, announced_on>>

\* conn.flush(IoMode::Blocking).unwrap(), the write failing
FlushError ==
    /\ result = Running /\ pc = "flush"
    /\ result' = Panicked("flush: io::Error")
    /\ Dropped
    /\ last_event' = None
    /\ calls' = <<>>
    /\ queued' = <<>>
    /\ UNCHANGED <<pc, pending, globals, announced, announced_on>>

\* conn.recv_events(IoMode::Blocking).unwrap(), reading a batch of events
RecvEvents ==
    /\ result = Running /\ pc = "recv"
    /\ \E n \in 1..MaxBatch : pending' = n
    /\ pc' = "dispatch"
    /\ UNCHANGED <<outputs, last_user_cmd_tags, conn_out, next_id, result, globals,
                   last_event, calls, queued, announced, announced_on>>

\* conn.recv_events(IoMode::Blocking).unwrap(), the read failing
RecvError ==
    /\ result = Running /\ pc = "recv"
    /\ result' = Panicked("recv_events: io::Error")
    /\ Dropped
    /\ UNCHANGED <<pc, pending, globals, last_event, calls, queued, announced,
                   announced_on>>

\* what a handler did: the fields of State and the next object id after it,
\* the requests it queued, the calls it made, and Running or how it failed
Effect(outs, tags, nid, reqs, cls, res) ==
    [outputs |-> outs, last_user_cmd_tags |-> tags, next_id |-> nid,
     queued |-> reqs, calls |-> cls, result |-> res]

\* a handler that returns without doing anything
NoEffect == Effect(outputs, last_user_cmd_tags, next_id, <<>>, <<>>, Running)

\* a handler that fails after queueing reqs and making the calls cls
Failed(reqs, cls, res) == Effect(outputs, last_user_cmd_tags, next_id, reqs, cls, res)

\* dispatch_events has an event of the batch left to dispatch
CanDispatch == result = Running /\ pc = "dispatch" /\ pending > 0

\* conn.dispatch_events(&mut state)?: the next event e of the batch goes to its
\* handler, which does eff. A handler's error or panic ends run; the batch
\* dispatched without one, the loop goes back to flush.
Dispatch(e, eff) ==
    \E did \in {eff} :
        /\ did.next_id <= MaxObjects + 1
        /\ pending' = pending - 1
        /\ pc' = IF pending = 1 THEN "flush" ELSE "dispatch"
        /\ last_event' = Some(e)
        /\ announced' = IF e.obj = "river_layout" /\ e.ev.kind = "UserCommandTags"
                        THEN Some(e.ev.tags) ELSE announced
        /\ announced_on' = IF e.obj = "river_layout" /\ e.ev.kind = "UserCommandTags"
                           THEN Some(e.id) ELSE announced_on
        /\ calls' = did.calls
        /\ queued' = did.queued
        /\ result' = did.result
        /\ IF did.result = Running
           THEN /\ outputs' = did.outputs
                /\ last_user_cmd_tags' = did.last_user_cmd_tags
                /\ next_id' = did.next_id
                /\ conn_out' = conn_out \o did.queued
           ELSE Dropped

(***************************************************************************)
(* What the compositor and the Layout may do.                              *)
(***************************************************************************)
\* wl_output events go to the bound objects of live outputs
BoundOutputs == {outputs[i].wl_output : i \in DOMAIN outputs}

\* river_layout events go to layout objects whose get_layout request has
\* been flushed and whose output still exists
LiveLayouts ==
    {outputs[i].river_layout.val :
        i \in {j \in DOMAIN outputs : is_some(outputs[j].river_layout)}}
    \ {conn_out[k].id : k \in {j \in DOMAIN conn_out : conn_out[j].req = "get_layout"}}

OutputEvents == [kind : {"Name"}, name : OutputNameStrings] \cup [kind : {"Done"}]

DemandArgs ==
    {[view_count |-> n, usable_width |-> d.usable_width,
      usable_height |-> d.usable_height, tags |-> d.tags, serial |-> d.serial] :
        n \in 0..MaxViews, d \in DemandInputs}

\* the view lists a Layout may hand back: 0 to MaxViews + 1 rectangles
ViewList(k) == [i \in 1..k |-> Rect(k + 1 - i)]
ViewLists == {ViewList(k) : k \in 0..(MaxViews + 1)}

\* Result<GeneratedLayout, L::Error>
GenerateResults ==
    {Ok([layout_name |-> "[]=", views |-> v]) : v \in ViewLists}
    \cup {Ok([layout_name |-> n, views |-> ViewList(MaxViews)]) : n \in LayoutNames}
    \cup {Err(e) : e \in LayoutErrors}

\* Result<(), L::Error>
UserCmdResults == {Ok("unit")} \cup {Err(e) : e \in LayoutErrors}

Event(obj, id, ev) == [obj |-> obj, id |-> id, ev |-> ev]

(***************************************************************************)
(* Dispatch<WlRegistry>                                                    *)
(***************************************************************************)
\* global.is::<WlOutput>()
is_WlOutput(g) == g.interface = "wl_output"

\* self.outputs.iter().position(|o| o.reg_name == name); 0 stands for None
position(outs, name) ==
    IF \E i \in DOMAIN outs : outs[i].reg_name = name
    THEN CHOOSE i \in DOMAIN outs :
            /\ outs[i].reg_name = name
            /\ \A j \in 1..(i - 1) : outs[j].reg_name # name
    ELSE 0

\* swap_remove gone wrong: the last element is removed, whatever the index
remove_last(outs, i) == [k \in 1..(Len(outs) - 1) |-> outs[k]]

\* Vec::swap_remove: the last element takes the place of the removed one
swap_remove(outs, i) ==
    [k \in 1..(Len(outs) - 1) |-> IF k = i THEN outs[Len(outs)] ELSE outs[k]]

\* Output_drop gone wrong: a destroy is sent whether or not there is a
\* river_layout
Output_drop_destroying(o) ==
    <<[req |-> "destroy",
       obj |-> IF is_some(o.river_layout) THEN o.river_layout.val ELSE 0]>>
    \o (IF o.version >= 3
        THEN <<[req |-> "release", obj |-> o.wl_output]>> ELSE <<>>)

\* Output_drop gone wrong: the wl_output is released before the river_layout
\* is destroyed
Output_drop_parent_first(o) ==
    (IF o.version >= 3
     THEN <<[req |-> "release", obj |-> o.wl_output]>> ELSE <<>>)
    \o (IF is_some(o.river_layout)
        THEN <<[req |-> "destroy", obj |-> o.river_layout.val]>> ELSE <<>>)

\* Output::drop: the requests it queues
Output_drop(o) ==
    (IF is_some(o.river_layout)
     THEN <<[req |-> "destroy", obj |-> o.river_layout.val]>> ELSE <<>>)
    \o (IF o.version >= 3
        THEN <<[req |-> "release", obj |-> o.wl_output]>> ELSE <<>>)

\* the arm wl_registry::Event::Global(global) if global.is::<WlOutput>()
on_global(name, g) ==
    IF is_WlOutput(g)
    THEN Effect(Append(outputs, Output_bind(next_id, name, g.version)),
                last_user_cmd_tags, next_id + 1,
                <<BindRequest(next_id, name, g.version)>>, <<>>, Running)
    ELSE NoEffect

\* on_global_remove gone wrong: the tags go with the Output that is removed
on_global_remove_resetting(name) ==
    LET output_index == position(outputs, name) IN
    IF output_index # 0
    THEN Effect(swap_remove(outputs, output_index), None, next_id,
                Output_drop(outputs[output_index]), <<>>, Running)
    ELSE NoEffect

\* on_global_remove gone wrong: a name that is not in the registry is refused
on_global_remove_strict(name) ==
    LET output_index == position(outputs, name) IN
    IF output_index # 0
    THEN Effect(swap_remove(outputs, output_index), last_user_cmd_tags, next_id,
                Output_drop(outputs[output_index]), <<>>, Running)
    ELSE Failed(<<>>, <<>>, Panicked("GlobalRemove for unknown output"))

\* the arm wl_registry::Event::GlobalRemove(name)
on_global_remove(name) ==
    LET output_index == position(outputs, name) IN
    IF output_index # 0
    THEN Effect(swap_remove(outputs, output_index), last_user_cmd_tags, next_id,
                Output_drop(outputs[output_index]), <<>>, Running)
    ELSE NoEffect

\* Dispatch<WlRegistry>::event
WlRegistry_event(ev) ==
    IF ev.kind = "Global" THEN on_global(ev.name, ev.global)
    ELSE IF ev.kind = "GlobalRemove" THEN on_global_remove(ev.name)
    ELSE NoEffect

\* the compositor announces a global under a name that is not in use
RegistryGlobal(name, g) ==
    /\ CanDispatch
    /\ globals[name] = NoGlobal
    /\ globals' = [globals EXCEPT ![name] = g]
    /\ LET ev == [kind |-> "Global", name |-> name, global |-> g] IN
        Dispatch(Event("wl_registry", 0, ev), WlRegistry_event(ev))

\* the compositor removes one of its globals
RegistryGlobalRemove(name) ==
    /\ CanDispatch
    /\ globals[name] # NoGlobal
    /\ globals' = [globals EXCEPT ![name] = NoGlobal]
    /\ LET ev == [kind |-> "GlobalRemove", name |-> name] IN
        Dispatch(Event("wl_registry", 0, ev), WlRegistry_event(ev))

(***************************************************************************)
(* Dispatch<WlOutput>                                                      *)
(***************************************************************************)
\* self.outputs.iter_mut().find(|o| o.wl_output == output); 0 stands for None
find_wl_output(outs, id) ==
    IF \E i \in DOMAIN outs : outs[i].wl_output = id
    THEN CHOOSE i \in DOMAIN outs :
            /\ outs[i].wl_output = id
            /\ \A j \in 1..(i - 1) : outs[j].wl_output # id
    ELSE 0

\* self.layout_manager.get_layout(conn, output.wl_output, namespace)
get_layout(new_id, wl_output, namespace) ==
    [req |-> "get_layout", obj |-> layout_manager, id |-> new_id,
     output |-> wl_output, namespace |-> namespace]

\* has_river_layout gone wrong: the handler never returns early
never_returns_early(output) == FALSE

\* if output.river_layout.is_some() { return; }
has_river_layout(output) == is_some(output.river_layout)

\* on_name gone wrong: the river_layout is requested, the name is not recorded
on_name_unrecorded(i, name) ==
    IF ~into_string(name).ok
    THEN Failed(<<>>, <<>>, Panicked("name.into_string().unwrap()"))
    ELSE Effect([outputs EXCEPT ![i].river_layout = Some(next_id)],
                last_user_cmd_tags, next_id + 1,
                <<get_layout(next_id, outputs[i].wl_output, CString_new(NAMESPACE).val)>>,
                <<>>, Running)

\* the arm wl_output::Event::Name(name), for the output at index i
on_name(i, name) ==
    IF ~into_string(name).ok
    THEN Failed(<<>>, <<>>, Panicked("name.into_string().unwrap()"))
    ELSE Effect([outputs EXCEPT ![i].name = Some(into_string(name).val),
                                ![i].river_layout = Some(next_id)],
                last_user_cmd_tags, next_id + 1,
                <<get_layout(next_id, outputs[i].wl_output, CString_new(NAMESPACE).val)>>,
                <<>>, Running)

\* WlOutput_event gone wrong: the name is recorded before the early return
WlOutput_event_renaming(output, ev) ==
    LET i == find_wl_output(outputs, output) IN
    IF i = 0
    THEN Failed(<<>>, <<>>, Panicked("Received event for unknown output"))
    ELSE IF has_river_layout(outputs[i])
    THEN IF ev.kind = "Name" /\ into_string(ev.name).ok
         THEN Effect([outputs EXCEPT ![i].name = Some(into_string(ev.name).val)],
                     last_user_cmd_tags, next_id, <<>>, <<>>, Running)
         ELSE NoEffect
    ELSE IF ev.kind = "Name" THEN on_name(i, ev.name)
    ELSE NoEffect

\* Dispatch<WlOutput>::event
WlOutput_event(output, ev) ==
    LET i == find_wl_output(outputs, output) IN
    IF i = 0
    THEN Failed(<<>>, <<>>, Panicked("Received event for unknown output"))
    ELSE IF has_river_layout(outputs[i]) THEN NoEffect
    ELSE IF ev.kind = "Name" THEN on_name(i, ev.name)
    ELSE NoEffect

\* the compositor sends an event of a bound wl_output
OutputEvent(id, ev) ==
    /\ CanDispatch
    /\ id \in BoundOutputs
    /\ UNCHANGED globals
    /\ Dispatch(Event("wl_output", id, ev), WlOutput_event(id, ev))

(***************************************************************************)
(* Dispatch<RiverLayoutV3>                                                 *)
(***************************************************************************)
\* find_river_layout gone wrong: the first Output is taken, whatever its
\* river_layout
find_first_output(outs, id) == IF outs = <<>> THEN 0 ELSE 1

\* self.outputs.iter().find(|o| o.river_layout == Some(layout)); 0 stands for None
find_river_layout(outs, id) ==
    IF \E i \in DOMAIN outs : outs[i].river_layout = Some(id)
    THEN CHOOSE i \in DOMAIN outs :
            /\ outs[i].river_layout = Some(id)
            /\ \A j \in 1..(i - 1) : outs[j].river_layout # Some(id)
    ELSE 0

\* layout.push_view_dimensions(conn, rect.x, rect.y, rect.width, rect.height, serial)
push_view_dimensions(layout, rect, serial) ==
    [req |-> "push_view_dimensions", obj |-> layout, x |-> rect.x, y |-> rect.y,
     width |-> rect.width, height |-> rect.height, serial |-> serial]

\* push_all gone wrong: the rectangles are sent last to first
push_all_reversed(layout, views, serial) ==
    [k \in 1..Len(views) |->
        push_view_dimensions(layout, views[Len(views) + 1 - k], serial)]

\* for rect in generated_layout.views { layout.push_view_dimensions(..) }
push_all(layout, views, serial) ==
    [k \in 1..Len(views) |-> push_view_dimensions(layout, views[k], serial)]

\* commit gone wrong: it is sent on the river_layout of the first Output
commit_on_first(layout, layout_name, serial) ==
    [req |-> "commit",
     obj |-> IF is_some(outputs[1].river_layout) THEN outputs[1].river_layout.val
             ELSE layout,
     layout_name |-> layout_name, serial |-> serial]

\* layout.commit(conn, layout_name, serial)
commit(layout, layout_name, serial) ==
    [req |-> "commit", obj |-> layout, layout_name |-> layout_name, serial |-> serial]

\* views_len_differs gone wrong: only too few rectangles are refused
views_len_shorter(views, view_count) == Len(views) < view_count

\* generated_layout.views.len() != args.view_count as usize
views_len_differs(views, view_count) == Len(views) # view_count

\* generate_layout gone wrong: it is handed the tags of the last announcement
generate_layout_pending_tags(args, output, ret) ==
    [fn |-> "generate_layout", view_count |-> args.view_count,
     usable_width |-> args.usable_width, usable_height |-> args.usable_height,
     tags |-> IF is_some(last_user_cmd_tags) THEN last_user_cmd_tags
              ELSE Some(args.tags),
     output |-> output.name, ret |-> ret]

\* a call self.layout.generate_layout(..) and what it returned
generate_layout(args, output, ret) ==
    [fn |-> "generate_layout", view_count |-> args.view_count,
     usable_width |-> args.usable_width, usable_height |-> args.usable_height,
     tags |-> Some(args.tags), output |-> output.name, ret |-> ret]

\* a call self.layout.user_cmd(..) and what it returned
user_cmd(command, tags, output, ret) ==
    [fn |-> "user_cmd", cmd |-> command, tags |-> tags, output |-> output.name,
     ret |-> ret]

\* generate_layout_failed gone wrong: the error is dropped and the handler
\* returns Ok
generate_layout_error_dropped(call, err) ==
    Effect(outputs, last_user_cmd_tags, next_id, <<>>, call, Running)

\* .map_err(Error::LayoutError)? on the result of generate_layout
generate_layout_failed(call, err) == Failed(<<>>, call, Returned(LayoutError(err)))

\* if let Err(err) = self.layout.user_cmd(..) { return Err(Error::LayoutError(err)); }
user_cmd_failed(call, err) == Failed(<<>>, call, Returned(LayoutError(err)))

\* on_namespace_in_use gone wrong: the event is ignored
namespace_in_use_ignored == NoEffect

\* the arm Event::NamespaceInUse
on_namespace_in_use == Failed(<<>>, <<>>, Returned(NamespaceInUse(NAMESPACE)))

\* the arm Event::LayoutDemand(args); ret is what generate_layout returns
on_layout_demand(layout, output, args, ret) ==
    LET call == <<generate_layout(args, output, ret)>> IN
    IF ~ret.ok
    THEN generate_layout_failed(call, ret.err)
    ELSE IF views_len_differs(ret.val.views, args.view_count)
    THEN Failed(<<>>, call, Returned(InvalidGeneratedLayout))
    ELSE IF ~CString_new(ret.val.layout_name).ok
    THEN Failed(push_all(layout, ret.val.views, args.serial), call,
                Panicked("CString::new(layout_name).unwrap()"))
    ELSE Effect(outputs, last_user_cmd_tags, next_id,
                push_all(layout, ret.val.views, args.serial)
                    \o <<commit(layout, CString_new(ret.val.layout_name).val,
                                args.serial)>>,
                call, Running)

\* on_user_command gone wrong: the tags are taken out of State by the call
on_user_command_taking(output, command, ret) ==
    IF ~into_string(command).ok
    THEN Failed(<<>>, <<>>, Panicked("command.into_string().unwrap()"))
    ELSE LET call == <<user_cmd(into_string(command).val, last_user_cmd_tags,
                                output, ret)>> IN
         IF ~ret.ok
         THEN user_cmd_failed(call, ret.err)
         ELSE Effect(outputs, None, next_id, <<>>, call, Running)

\* the arm Event::UserCommand(command); ret is what user_cmd returns
on_user_command(output, command, ret) ==
    IF ~into_string(command).ok
    THEN Failed(<<>>, <<>>, Panicked("command.into_string().unwrap()"))
    ELSE LET call == <<user_cmd(into_string(command).val, last_user_cmd_tags,
                                output, ret)>> IN
         IF ~ret.ok
         THEN user_cmd_failed(call, ret.err)
         ELSE Effect(outputs, last_user_cmd_tags, next_id, <<>>, call, Running)

\* on_user_command_tags gone wrong: only the first announcement is kept
on_user_command_tags_once(tags) ==
    Effect(outputs, IF is_some(last_user_cmd_tags) THEN last_user_cmd_tags ELSE Some(tags),
           next_id, <<>>, <<>>, Running)

\* the arm Event::UserCommandTags(tags)
on_user_command_tags(tags) ==
    Effect(outputs, Some(tags), next_id, <<>>, <<>>, Running)

\* Dispatch<RiverLayoutV3>::try_event; ret is what the Layout returns if called
RiverLayoutV3_try_event(layout, ev, ret) ==
    LET i == find_river_layout(outputs, layout) IN
    IF i = 0
    THEN Failed(<<>>, <<>>, Panicked("Received event for unknown layout object"))
    ELSE IF ev.kind = "NamespaceInUse" THEN on_namespace_in_use
    ELSE IF ev.kind = "LayoutDemand"
    THEN on_layout_demand(layout, outputs[i], ev.args, ret)
    ELSE IF ev.kind = "UserCommand" THEN on_user_command(outputs[i], ev.command, ret)
    ELSE on_user_command_tags(ev.tags)

\* the compositor reports the namespace as taken
LayoutNamespaceInUse(id) ==
    /\ CanDispatch
    /\ id \in LiveLayouts
    /\ UNCHANGED globals
    /\ LET ev == [kind |-> "NamespaceInUse"] IN
        Dispatch(Event("river_layout", id, ev), RiverLayoutV3_try_event(id, ev, Ok("unit")))

\* the compositor demands a layout, and generate_layout returns ret
LayoutDemand(id, args, ret) ==
    /\ CanDispatch
    /\ id \in LiveLayouts
    /\ UNCHANGED globals
    /\ LET ev == [kind |-> "LayoutDemand", args |-> args] IN
        Dispatch(Event("river_layout", id, ev), RiverLayoutV3_try_event(id, ev, ret))

\* the compositor passes a user command on, and user_cmd returns ret
UserCommand(id, command, ret) ==
    /\ CanDispatch
    /\ id \in LiveLayouts
    /\ UNCHANGED globals
    /\ LET ev == [kind |-> "UserCommand", command |-> command] IN
        Dispatch(Event("river_layout", id, ev), RiverLayoutV3_try_event(id, ev, ret))

\* the compositor announces the tags of the user command that follows
UserCommandTags(id, tags) ==
    /\ CanDispatch
    /\ id \in LiveLayouts
    /\ UNCHANGED globals
    /\ LET ev == [kind |-> "UserCommandTags", tags |-> tags] IN
        Dispatch(Event("river_layout", id, ev), RiverLayoutV3_try_event(id, ev, Ok("unit")))

(***************************************************************************)
(* The specification.                                                      *)
(***************************************************************************)
Next ==
    \/ Flush
    \/ FlushError
    \/ RecvEvents
    \/ RecvError
    \/ \E name \in RegNames : \E g \in OutputGlobals \cup OtherGlobals :
            RegistryGlobal(name, g)
    \/ \E name \in RegNames : RegistryGlobalRemove(name)
    \/ \E id \in ObjectIds : \E ev \in OutputEvents : OutputEvent(id, ev)
    \/ \E id \in ObjectIds : LayoutNamespaceInUse(id)
    \/ \E id \in ObjectIds : \E args \in DemandArgs : \E ret \in GenerateResults :
            LayoutDemand(id, args, ret)
    \/ \E id \in ObjectIds : \E command \in CommandStrings : \E ret \in UserCmdResults :
            UserCommand(id, command, ret)
    \/ \E id \in ObjectIds : \E tags \in TagValues : UserCommandTags(id, tags)

Spec == Init /\ [][Next]_vars

(***************************************************************************)
(* Properties.                                                             *)
(***************************************************************************)
\* the step dispatches an event
DispatchStep == pending' = pending - 1

\* the last event dispatched was of this kind, on this kind of object
Last(obj, kind) ==
    /\ last_event.some
    /\ last_event.val.obj = obj
    /\ last_event.val.ev.kind = kind

\* the last event was a layout demand for which generate_layout was called
LastDemand == Last("river_layout", "LayoutDemand") /\ Len(calls) = 1

\* what the claims call set-view-dimensions and commit
IsLayoutReply(r) == r.req \in {"push_view_dimensions", "commit"}

\* the n + 1 requests that answer a demand on layout object l: one
\* push_view_dimensions per rectangle, in order, then the commit
AnswersDemand(reqs, l, views, layout_name, serial) ==
    /\ Len(reqs) = Len(views) + 1
    /\ \A k \in 1..Len(views) :
        reqs[k] = [req |-> "push_view_dimensions", obj |-> l,
                   x |-> views[k].x, y |-> views[k].y,
                   width |-> views[k].width, height |-> views[k].height,
                   serial |-> serial]
    /\ reqs[Len(views) + 1] =
        [req |-> "commit", obj |-> l, layout_name |-> layout_name, serial |-> serial]

\* generate_layout returned as many rectangles as the demand has views
Conforming ==
    /\ LastDemand
    /\ calls[1].ret.ok
    /\ Len(calls[1].ret.val.views) = last_event.val.ev.args.view_count

\* C1, as stated: a demand with view_count = n and serial s for which
\* generate_layout returns exactly n rectangles is answered by n
\* push_view_dimensions, one per rectangle in the order returned, then one
\* commit with the returned layout name, all with serial s.
C1_AsStated ==
    Conforming =>
        AnswersDemand(queued, last_event.val.id, calls[1].ret.val.views,
                      calls[1].ret.val.layout_name, last_event.val.ev.args.serial)

\* C1, amended: the same, for a returned layout name without a NUL byte (a
\* name with one makes CString::new fail, and the handler panics after the
\* push_view_dimensions requests, before the commit).
C1_DemandAnswered ==
    (Conforming /\ calls[1].ret.val.layout_name \notin WithNul) =>
        /\ result = Running
        /\ AnswersDemand(queued, last_event.val.id, calls[1].ret.val.views,
                         calls[1].ret.val.layout_name, last_event.val.ev.args.serial)

C1_Witness ==
    /\ Conforming
    /\ last_event.val.ev.args.view_count = MaxViews
    /\ calls[1].ret.val.layout_name \notin WithNul
    /\ Len(queued) = MaxViews + 1
    /\ result = Running

\* C2: when generate_layout succeeds with a number of rectangles other than
\* view_count, run ends with InvalidGeneratedLayout and the handler queues no
\* push_view_dimensions and no commit.
C2_InvalidLayoutAborts ==
    (/\ LastDemand
     /\ calls[1].ret.ok
     /\ Len(calls[1].ret.val.views) # last_event.val.ev.args.view_count) =>
        /\ result = [state |-> "Err",
                     err |-> [variant |-> "InvalidGeneratedLayout", detail |-> ""]]
        /\ \A k \in DOMAIN queued : ~IsLayoutReply(queued[k])

C2_Witness ==
    /\ LastDemand
    /\ calls[1].ret.ok
    /\ last_event.val.ev.args.view_count = 0
    /\ Len(calls[1].ret.val.views) > 0
    /\ result.state = "Err"

\* C3, as stated: an error of user_cmd is ignored, and run goes on.
C3_UserCmdErrorIgnored ==
    (/\ Last("river_layout", "UserCommand")
     /\ Len(calls) = 1
     /\ ~calls[1].ret.ok) => result = Running

\* C4: when generate_layout returns an error, run ends with LayoutError
\* wrapping that error, and the handler queues no push_view_dimensions and no
\* commit.
C4_LayoutErrorAborts ==
    (LastDemand /\ ~calls[1].ret.ok) =>
        /\ result = [state |-> "Err",
                     err |-> [variant |-> "LayoutError", detail |-> calls[1].ret.err]]
        /\ \A k \in DOMAIN queued : ~IsLayoutReply(queued[k])

C4_Witness ==
    /\ LastDemand
    /\ ~calls[1].ret.ok
    /\ result.state = "Err"

\* C5: a NamespaceInUse event on any layout object ends run with
\* Error::NamespaceInUse carrying NAMESPACE, and once run has ended no event
\* is dispatched and nothing changes any more.
C5_NamespaceInUseAborts ==
    [][/\ (/\ DispatchStep
           /\ last_event'.some
           /\ last_event'.val.obj = "river_layout"
           /\ last_event'.val.ev.kind = "NamespaceInUse") =>
                result' = [state |-> "Err",
                           err |-> [variant |-> "NamespaceInUse", detail |-> NAMESPACE]]
       /\ result # Running => UNCHANGED vars]_vars

C5_Witness ==
    /\ Last("river_layout", "NamespaceInUse")
    /\ result.state = "Err"
    /\ pending > 0

\* the registry names held in State.outputs
RegistryNames == {outputs[i].reg_name : i \in DOMAIN outputs}

\* C6: while run goes on, the registry names in State.outputs are exactly the
\* names of the wl_output globals announced and not removed, each once.
C6_RegistryMatchesGlobals ==
    result = Running =>
        /\ RegistryNames = {n \in RegNames : globals[n].interface = "wl_output"}
        /\ Len(outputs) = Cardinality(RegistryNames)

\* an Output that queued requests on its way out was removed, one is left
C6_Witness ==
    /\ Last("wl_registry", "GlobalRemove")
    /\ queued # <<>>
    /\ Len(outputs) = 1
    /\ result = Running

\* the step dispatches GlobalRemove(n), and no Output of the registry has
\* registry name n
RemovesUnknown(n) ==
    /\ DispatchStep
    /\ last_event' = [some |-> TRUE,
                      val |-> [obj |-> "wl_registry", id |-> 0,
                               ev |-> [kind |-> "GlobalRemove", name |-> n]]]
    /\ \A i \in DOMAIN outputs : outputs[i].reg_name # n

\* C7, as stated: a GlobalRemove whose name matches no Output of the registry
\* is rejected with an error.
C7_AsStated ==
    [][\A n \in RegNames : RemovesUnknown(n) => result' # Running]_vars

\* C7, amended: a GlobalRemove whose name matches no Output of the registry
\* (the name of a global that is not a wl_output) is accepted and ignored:
\* the registry and the connection's queue are unchanged and run goes on.
C7_UnknownRemoveIgnored ==
    [][\A n \in RegNames : RemovesUnknown(n) =>
            /\ result' = Running
            /\ queued' = <<>>
            /\ UNCHANGED <<outputs, last_user_cmd_tags, conn_out, next_id>>]_vars

\* no object was ever bound, so the global removed was not a wl_output
C7_Witness ==
    /\ Last("wl_registry", "GlobalRemove")
    /\ next_id = 1
    /\ result = Running

\* the get_layout requests among reqs that name wl_output o
GetLayouts(reqs, o) ==
    {k \in DOMAIN reqs : reqs[k].req = "get_layout" /\ reqs[k].output = o}

\* the Output bound to wl_output o has a river_layout
HasSession(outs, o) ==
    \E i \in DOMAIN outs : outs[i].wl_output = o /\ outs[i].river_layout.some

\* the step dispatches a name event of wl_output o
NameStep(o) ==
    /\ DispatchStep
    /\ last_event'.some
    /\ last_event'.val.obj = "wl_output"
    /\ last_event'.val.id = o
    /\ last_event'.val.ev.kind = "Name"

\* C8: no Output starts with a river_layout; get_layout is requested for an
\* Output only while its name event is handled and it has no river_layout, then
\* once; an Output gets its river_layout only so, and keeps it as long as it is
\* in the registry. So it is requested at most once per Output, and never for
\* an Output that was sent no name.
C8_SessionRequestedOnce ==
    /\ \A i \in DOMAIN outputs : ~outputs[i].river_layout.some
    /\ [][\A o \in ObjectIds :
            /\ DispatchStep => Cardinality(GetLayouts(queued', o)) <= 1
            /\ (DispatchStep /\ GetLayouts(queued', o) # {}) =>
                    /\ NameStep(o)
                    /\ o \in BoundOutputs
                    /\ ~HasSession(outputs, o)
            /\ (HasSession(outputs', o) /\ ~HasSession(outputs, o)) =>
                    /\ NameStep(o)
                    /\ GetLayouts(queued', o) # {}
            /\ \A i \in DOMAIN outputs : \A j \in DOMAIN outputs' :
                    (/\ outputs[i].wl_output = o
                     /\ outputs[i].river_layout.some
                     /\ outputs'[j].wl_output = o) =>
                        outputs'[j].river_layout = outputs[i].river_layout]_vars

C8_Witness ==
    /\ Last("wl_output", "Name")
    /\ GetLayouts(queued, last_event.val.id) # {}
    /\ HasSession(outputs, last_event.val.id)
    /\ result = Running

\* C9: a name event, with whatever name, for an Output that has a
\* river_layout changes nothing: no request is queued, State is as before and
\* run goes on.
C9_RenameIsNoOp ==
    [][\A o \in ObjectIds :
            (NameStep(o) /\ HasSession(outputs, o)) =>
                /\ queued' = <<>>
                /\ calls' = <<>>
                /\ result' = Running
                /\ UNCHANGED <<outputs, last_user_cmd_tags, conn_out, next_id>>]_vars

\* a name event with another name than the recorded one was dispatched
C9_Witness ==
    /\ Last("wl_output", "Name")
    /\ \E i \in DOMAIN outputs :
        /\ outputs[i].wl_output = last_event.val.id
        /\ outputs[i].river_layout.some
        /\ outputs[i].name # [some |-> TRUE, val |-> last_event.val.ev.name]
    /\ queued = <<>>
    /\ result = Running

\* C10: user_cmd is called with the tags of the last UserCommandTags event
\* the compositor sent, and with None when it sent none.
C10_UserCmdGetsLastTags ==
    (Last("river_layout", "UserCommand") /\ Len(calls) = 1) =>
        /\ calls[1].fn = "user_cmd"
        /\ calls[1].tags = announced

C10_Witness ==
    /\ Last("river_layout", "UserCommand")
    /\ Len(calls) = 1
    /\ calls[1].tags.some
    /\ result = Running

\* C11: handling a user command leaves last_user_cmd_tags as it was: after
\* the handler, State still holds the tags user_cmd was called with, so the
\* next user command gets the same ones. While run goes on, the value is that
\* of the last UserCommandTags event, so nothing else changes it.
C11_UserCmdKeepsTags ==
    result = Running =>
        /\ last_user_cmd_tags = announced
        /\ (Last("river_layout", "UserCommand") /\ Len(calls) = 1) =>
                last_user_cmd_tags = calls[1].tags

C11_Witness ==
    /\ Last("river_layout", "UserCommand")
    /\ Len(calls) = 1
    /\ calls[1].tags.some
    /\ last_user_cmd_tags = calls[1].tags
    /\ pending > 0
    /\ result = Running

\* the step dispatches GlobalRemove(n)
RemoveStep(n) ==
    /\ DispatchStep
    /\ last_event' = [some |-> TRUE,
                      val |-> [obj |-> "wl_registry", id |-> 0,
                               ev |-> [kind |-> "GlobalRemove", name |-> n]]]

\* what the removal of Output o has to queue: the destroy of its river_layout
\* if it has one, then the release of its wl_output if that is of version 3
\* or more
Teardown(o) ==
    IF o.river_layout.some /\ o.version >= 3
    THEN <<[req |-> "destroy", obj |-> o.river_layout.val],
           [req |-> "release", obj |-> o.wl_output]>>
    ELSE IF o.river_layout.some
    THEN <<[req |-> "destroy", obj |-> o.river_layout.val]>>
    ELSE IF o.version >= 3
    THEN <<[req |-> "release", obj |-> o.wl_output]>>
    ELSE <<>>

\* C12: when GlobalRemove removes an Output, the destroy of its river_layout
\* (if it has one) is queued before the release of its wl_output, the release
\* is queued only for a wl_output of version 3 or more, and the Output is not
\* in the registry afterwards.
C12_TeardownChildFirst ==
    [][\A n \in RegNames : \A i \in DOMAIN outputs :
            (RemoveStep(n) /\ outputs[i].reg_name = n) =>
                /\ result' = Running
                /\ queued' = Teardown(outputs[i])
                /\ conn_out' = conn_out \o Teardown(outputs[i])
                /\ \A j \in DOMAIN outputs' :
                        /\ outputs'[j].reg_name # n
                        /\ outputs'[j].wl_output # outputs[i].wl_output]_vars

C12_Witness ==
    /\ Last("wl_registry", "GlobalRemove")
    /\ Len(queued) = 2
    /\ queued[1].req = "destroy"
    /\ queued[2].req = "release"
    /\ result = Running

\* C13: an Output that has a river_layout has a name, and every call of
\* generate_layout and of user_cmd is handed a name, not None.
C13_SessionHasName ==
    /\ \A i \in DOMAIN outputs : outputs[i].river_layout.some => outputs[i].name.some
    /\ \A k \in DOMAIN calls : calls[k].output.some

C13_Witness ==
    /\ LastDemand
    /\ calls[1].output.some
    /\ \E i \in DOMAIN outputs :
        /\ outputs[i].river_layout = [some |-> TRUE, val |-> last_event.val.id]
        /\ outputs[i].name = calls[1].output
    /\ result = Running

\* how a failure of flush or of recv_events ends run in the model
TransportPanics == {"flush: io::Error", "recv_events: io::Error"}

\* C14, as stated: every fatal condition (namespace in use, invalid layout,
\* error of generate_layout, failure of flush, recv_events or
\* dispatch_events) ends run with an error returned as its result, not with
\* a panic.
C14_FatalIsReturned ==
    /\ Last("river_layout", "NamespaceInUse") => result.state = "Err"
    /\ (LastDemand /\ ~calls[1].ret.ok) => result.state = "Err"
    /\ (LastDemand /\ calls[1].ret.ok
            /\ Len(calls[1].ret.val.views) # last_event.val.ev.args.view_count) =>
                result.state = "Err"
    /\ result.state = "Panic" => result.msg \notin TransportPanics

\* the causes run can return once its loop is entered
LoopErrors == {"NamespaceInUse", "InvalidGeneratedLayout", "LayoutError"}

\* C15: run never returns Ok. It is in its loop, or it has ended with an
\* error that carries the cause (or with a panic); in the loop it is at
\* flush, recv_events or dispatch_events, and when the last event of a batch
\* has been dispatched without a failure it is back at flush.
C15_NeverReturnsOk ==
    /\ result.state \in {"Running", "Err", "Panic"}
    /\ result.state = "Err" => result.err.variant \in LoopErrors
    /\ result = Running =>
        /\ pc \in {"flush", "recv", "dispatch"}
        /\ pc = "dispatch" <=> pending > 0
        /\ (last_event.some /\ pending = 0) => pc = "flush"

C15_Witness ==
    /\ result = Running
    /\ last_event.some
    /\ pending = 0
    /\ pc = "flush"
    /\ Len(conn_out) > MaxViews

\* C16: an Output removed before any name event for it has no river_layout,
\* and no get_layout was requested for it; its removal queues no destroy and
\* no get_layout, run goes on, and every other Output stays in the registry as
\* it was. No step ever queues a get_layout or a destroy for an Output
\* without a name.
C16_UnnamedRemovalIsQuiet ==
    [][/\ \A n \in RegNames : \A i \in DOMAIN outputs :
            (RemoveStep(n) /\ outputs[i].reg_name = n /\ ~outputs[i].name.some) =>
                /\ ~outputs[i].river_layout.some
                /\ GetLayouts(conn_out, outputs[i].wl_output) = {}
                /\ \A k \in DOMAIN queued' :
                        queued'[k].req \notin {"destroy", "get_layout"}
                /\ result' = Running
                /\ Len(outputs') = Len(outputs) - 1
                /\ \A j \in DOMAIN outputs \ {i} :
                        \E k \in DOMAIN outputs' : outputs'[k] = outputs[j]
       /\ DispatchStep =>
            \A k \in DOMAIN queued' :
                /\ queued'[k].req = "get_layout" =>
                        \E j \in DOMAIN outputs' :
                            /\ outputs'[j].wl_output = queued'[k].output
                            /\ outputs'[j].name.some
                /\ queued'[k].req = "destroy" =>
                        \E j \in DOMAIN outputs :
                            /\ outputs[j].river_layout.some
                            /\ outputs[j].river_layout.val = queued'[k].obj
                            /\ outputs[j].name.some]_vars

\* three objects were bound, an Output was removed without a destroy, and the
\* Output that is left has the only river_layout there ever was
C16_Witness ==
    /\ Last("wl_registry", "GlobalRemove")
    /\ next_id = 4
    /\ Len(outputs) = 1
    /\ outputs[1].river_layout.some
    /\ \A k \in DOMAIN queued : queued[k].req # "destroy"
    /\ result = Running

\* C17: the name of an Output is set when its river_layout is created, to the
\* name of the event handled; from then on, as long as the Output is in the
\* registry, no step changes its name or its river_layout; and every call of
\* generate_layout and user_cmd gets the name of the Output whose
\* river_layout received the event.
C17_NameFixedAtCreation ==
    [][/\ \A i \in DOMAIN outputs : \A j \in DOMAIN outputs' :
            (/\ outputs[i].river_layout.some
             /\ outputs'[j].wl_output = outputs[i].wl_output) =>
                /\ outputs'[j].name = outputs[i].name
                /\ outputs'[j].river_layout = outputs[i].river_layout
       /\ \A o \in ObjectIds : \A j \in DOMAIN outputs' :
            (/\ NameStep(o)
             /\ ~HasSession(outputs, o)
             /\ outputs'[j].wl_output = o
             /\ outputs'[j].river_layout.some) =>
                outputs'[j].name = [some |-> TRUE, val |-> last_event'.val.ev.name]
       /\ DispatchStep =>
            \A k \in DOMAIN calls' :
                \E i \in DOMAIN outputs :
                    /\ outputs[i].river_layout =
                            [some |-> TRUE, val |-> last_event'.val.id]
                    /\ calls'[k].output = outputs[i].name]_vars

\* a demand was answered for one Output while another has another name
C17_Witness ==
    /\ LastDemand
    /\ result = Running
    /\ \E i \in DOMAIN outputs : \E j \in DOMAIN outputs :
        /\ outputs[i].river_layout = [some |-> TRUE, val |-> last_event.val.id]
        /\ calls[1].output = outputs[i].name
        /\ outputs[j].name.some
        /\ outputs[j].name # outputs[i].name

\* the river_layout objects of the Outputs in the registry
Sessions ==
    {outputs[i].river_layout.val :
        i \in {j \in DOMAIN outputs : outputs[j].river_layout.some}}

\* C18: last_user_cmd_tags is one value for all river_layout objects: a user
\* command on one of them gets the tags of the last announcement although
\* that was sent to another, with the name of its own Output; an
\* announcement on any of them sets the value, and the removal of an Output
\* leaves it.
C18_TagsSharedBySessions ==
    /\ (/\ Last("river_layout", "UserCommand")
        /\ Len(calls) = 1
        /\ announced_on.some
        /\ announced_on.val # last_event.val.id) =>
            /\ calls[1].tags = announced
            /\ result = Running =>
                \E i \in DOMAIN outputs :
                    /\ outputs[i].river_layout = [some |-> TRUE, val |-> last_event.val.id]
                    /\ calls[1].output = outputs[i].name
    /\ (Last("river_layout", "UserCommandTags") /\ result = Running) =>
            last_user_cmd_tags = [some |-> TRUE, val |-> last_event.val.ev.tags]
    /\ (Last("wl_registry", "GlobalRemove") /\ result = Running) =>
            last_user_cmd_tags = announced

\* the tags were announced on the river_layout of an Output that has been
\* removed since, and a user command on another got them
C18_Witness ==
    /\ Last("river_layout", "UserCommand")
    /\ Len(calls) = 1
    /\ calls[1].tags.some
    /\ announced_on.some
    /\ announced_on.val # last_event.val.id
    /\ announced_on.val \notin Sessions
    /\ result = Running

\* C19: push_view_dimensions and commit are queued only by the handler of a
\* LayoutDemand, only on the object the demand came to and with its serial,
\* and that object is the river_layout of an Output in the registry; the
\* handlers of UserCommandTags and UserCommand queue nothing; and nothing is
\* queued on a river_layout after its destroy, whose object is in no Output
\* any more.
C19_RepliesOnlyToDemand ==
    /\ \A k \in DOMAIN queued :
        IsLayoutReply(queued[k]) =>
            /\ Last("river_layout", "LayoutDemand")
            /\ queued[k].obj = last_event.val.id
            /\ queued[k].serial = last_event.val.ev.args.serial
    /\ (Last("river_layout", "UserCommandTags") \/ Last("river_layout", "UserCommand")) =>
            queued = <<>>
    /\ (Last("river_layout", "LayoutDemand") /\ result = Running) =>
            last_event.val.id \in Sessions
    /\ \A j \in DOMAIN conn_out :
        conn_out[j].req = "destroy" =>
            /\ conn_out[j].obj \notin Sessions
            /\ \A k \in DOMAIN conn_out :
                (k > j /\ IsLayoutReply(conn_out[k])) =>
                    conn_out[k].obj # conn_out[j].obj
    /\ \A l \in Sessions : l < next_id

\* a demand was answered on one river_layout after another was destroyed
C19_Witness ==
    /\ LastDemand
    /\ result = Running
    /\ Len(queued) > 1
    /\ \E j \in DOMAIN conn_out : conn_out[j].req = "destroy"
    /\ \A k \in DOMAIN queued : queued[k].obj = last_event.val.id

\* the step dispatches a LayoutDemand
DemandStep ==
    /\ DispatchStep
    /\ last_event'.some
    /\ last_event'.val.obj = "river_layout"
    /\ last_event'.val.ev.kind = "LayoutDemand"

\* C20: the handler of a LayoutDemand calls generate_layout, once, with the
\* view_count, usable_width, usable_height and tags of the demand (not
\* last_user_cmd_tags) and the name of the Output of the river_layout; and when
\* it is done, last_user_cmd_tags and the registry, every name and every
\* river_layout in it, are as before.
C20_DemandLeavesState ==
    [][DemandStep =>
        /\ Len(calls') = 1
        /\ calls'[1].fn = "generate_layout"
        /\ calls'[1].view_count = last_event'.val.ev.args.view_count
        /\ calls'[1].usable_width = last_event'.val.ev.args.usable_width
        /\ calls'[1].usable_height = last_event'.val.ev.args.usable_height
        /\ calls'[1].tags = [some |-> TRUE, val |-> last_event'.val.ev.args.tags]
        /\ \E i \in DOMAIN outputs :
            /\ outputs[i].river_layout = [some |-> TRUE, val |-> last_event'.val.id]
            /\ calls'[1].output = outputs[i].name
        /\ result' = Running => UNCHANGED <<outputs, last_user_cmd_tags, next_id>>]_vars

\* a demand with other tags than the announced ones was answered
C20_Witness ==
    /\ LastDemand
    /\ result = Running
    /\ queued # <<>>
    /\ announced.some
    /\ last_user_cmd_tags = announced
    /\ announced.val # last_event.val.ev.args.tags
    /\ calls[1].tags = [some |-> TRUE, val |-> last_event.val.ev.args.tags]

====
